---- MODULE Spec2Model ----
(***************************************************************************)
(* StarcoinWalletAdapter (WalletAdapters/StarcoinWallet.ts) as a state     *)
(* machine.  JavaScript is single-threaded: the code between two awaits    *)
(* runs atomically, so every action below is one such segment of a public  *)
(* method, or one invocation of a callback the adapter handed out.         *)
(***************************************************************************)
EXTENDS Integers, Sequences, FiniteSets, Bags, TLC

\* Number of public-method calls that may be outstanding at the same time.
MaxCalls == 2

\* Host environments the constructor distinguishes (lines 100-103, 117).
Envs == {"browser", "noWindow", "noDocument"}

\* Values the provider hands out as accounts.
Addresses == {"0xA", "0xB"}

\* Numeric chain ids the provider may report (keys of _nodeUrlMap).
ChainIds == {1, 254}

Null == <<>>
Some(x) == <<x>>

VARIABLES
    env,            \* host environment of the adapter
    injected,       \* window.starcoin is present
    polling,        \* the detection poll is still scheduled
    _readyState,
    _provider,      \* TRUE iff this._provider holds a provider reference
    _wallet,        \* Null or Some([address, isConnected])
    _network,       \* Null or Some(id)
    _chainId,       \* "undefined" or the hex string
    _connecting,
    listeners,      \* handlers registered with provider.on
    calls,          \* bag of the calls suspended at an await
    last,           \* the call or callback that completed in the last step
    lastLifecycle   \* the last successful lifecycle event

vars == <<env, injected, polling, _readyState, _provider, _wallet, _network,
          _chainId, _connecting, listeners, calls, last, lastLifecycle>>

envVars == <<env, injected, polling, _readyState, _provider>>

----------------------------------------------------------------------------
(* Pure helpers *)

HexDigits == <<"0", "1", "2", "3", "4", "5", "6", "7",
               "8", "9", "a", "b", "c", "d", "e", "f">>

\* Number.prototype.toString(16) for a non-negative integer
RECURSIVE ToString16(_)
ToString16(n) ==
    IF n < 16 THEN HexDigits[n + 1]
    ELSE ToString16(n \div 16) \o HexDigits[(n % 16) + 1]

\* the chain id written with the default radix
ChainIdDecimal(id) == "0x" \o ToString(id)

\* `0x${networkInfo.id.toString(16)}`
ChainIdHex(id) == "0x" \o ToString16(id)

\* a readiness test that lets a wallet that was not detected through
WalletReadyLax(rs) == rs \in {"Loadable", "Installed", "NotDetected"}

\* readiness test of connect()
WalletReady(rs) == rs \in {"Loadable", "Installed"}

\* get connected(): !!this._wallet?.isConnected
connected == _wallet # Null /\ _wallet[1].isConnected

\* get connecting()
connecting == _connecting

\* publicAccount.address: this._wallet?.address || null
AddressOf(w) ==
    IF w # Null /\ w[1].address # "undefined" THEN w[1].address ELSE "null"

publicAccountAddress == AddressOf(_wallet)

\* get network(); _api is never assigned
network == [name |-> _network, api |-> "undefined", chainId |-> _chainId]

\* get readyState()
readyState == _readyState

\* this._provider || window.starcoin : "ReferenceError" when window is not
\* defined and the left operand is falsy, else whether a provider was found
ProviderLookup ==
    IF _provider THEN "provider"
    ELSE IF env = "noWindow" THEN "ReferenceError"
    ELSE IF injected THEN "provider" ELSE "undefined"

Event(name, payload) == [name |-> name, payload |-> payload]

\* what a call sees when it starts; the connecting flag is read by
\* connect() alone and is recorded for it alone
PreState(op) == [session |-> _wallet # Null, connected |-> connected,
                 connecting |-> (op = "connect" /\ _connecting),
                 readyState |-> _readyState]

NoPre == [session |-> FALSE, connected |-> FALSE, connecting |-> FALSE,
          readyState |-> "NotDetected"]

\* a call that has just been made
Begin(op) == [op |-> op, pc |-> "start", events |-> <<>>, pcalls |-> <<>>,
              replies |-> <<>>, pre |-> PreState(op)]

NoCall == [op |-> "none", outcome |-> "none", result |-> "none",
           events |-> <<>>, pcalls |-> <<>>, replies |-> <<>>, pre |-> NoPre]

\* the promise of call c settles
Settle(c, outcome, result, evs) ==
    [op |-> c.op, outcome |-> outcome, result |-> result,
     events |-> c.events \o evs, pcalls |-> c.pcalls,
     replies |-> c.replies, pre |-> c.pre]

Resolve(c, value, evs) == Settle(c, "resolved", value, evs)
Reject(c, err, evs) == Settle(c, "rejected", err, evs)

\* the call calls the provider and suspends at an await
Await(c, pc, method) ==
    [c EXCEPT !.pc = pc, !.pcalls = Append(@, method)]

\* the provider's answer to the request call c awaits has arrived
Got(c, reply) == [c EXCEPT !.replies = Append(@, reply)]

InFlight == BagToSet(calls)

\* room for one more suspended call
Room == BagCardinality(calls) < MaxCalls

Suspend(c) == calls (+) SetToBag({c})
Resume(c) == calls (-) SetToBag({c})

\* a new call has run its first segment, a suspended call c its next one:
\* d is the call as it suspends again (it has a pc) or as it settled
Step(d) ==
    IF "pc" \in DOMAIN d
    THEN /\ calls' = Suspend(d)
         /\ last' = NoCall
    ELSE /\ calls' = calls
         /\ last' = d

StepFrom(c, d) ==
    IF "pc" \in DOMAIN d
    THEN /\ calls' = Resume(c) (+) SetToBag({d})
         /\ last' = NoCall
    ELSE /\ calls' = Resume(c)
         /\ last' = d

----------------------------------------------------------------------------
(* Construction *)

Init ==
    /\ env \in Envs
    /\ injected \in (IF env = "noWindow" THEN {FALSE} ELSE BOOLEAN)
    /\ _provider = injected
    /\ _readyState = (IF env = "browser" THEN "NotDetected" ELSE "Unsupported")
    /\ polling = (env = "browser")
    /\ _network = Null
    /\ _chainId = "undefined"
    /\ _connecting = FALSE
    /\ _wallet = Null
    /\ listeners = [account |-> FALSE, network |-> FALSE]
    /\ calls = EmptyBag
    /\ last = NoCall
    /\ lastLifecycle = "none"

----------------------------------------------------------------------------
(* Host environment *)

\* the wallet extension injects window.starcoin
Inject ==
    /\ env # "noWindow"
    /\ ~injected
    /\ injected' = TRUE
    /\ last' = NoCall
    /\ UNCHANGED <<env, polling, _readyState, _provider, _wallet, _network,
                   _chainId, _connecting, listeners, calls, lastLifecycle>>

\* a detection callback that forgets to announce the new state
DetectSilent ==
    /\ polling
    /\ IF injected
       THEN /\ _readyState' = "Installed"
            /\ polling' = FALSE
            /\ last' = Settle(Begin("detect"), "returned", "true", <<>>)
       ELSE /\ UNCHANGED <<_readyState, polling>>
            /\ last' = Settle(Begin("detect"), "returned", "false", <<>>)
    /\ UNCHANGED <<env, injected, _provider, _wallet, _network, _chainId,
                   _connecting, listeners, calls, lastLifecycle>>

\* one run of the detection callback handed to scopePollingDetectionStrategy
Detect ==
    /\ polling
    /\ IF injected
       THEN /\ _readyState' = "Installed"
            /\ polling' = FALSE
            /\ last' = Settle(Begin("detect"), "returned", "true",
                              <<Event("readyStateChange", "Installed")>>)
       ELSE /\ UNCHANGED <<_readyState, polling>>
            /\ last' = Settle(Begin("detect"), "returned", "false", <<>>)
    /\ UNCHANGED <<env, injected, _provider, _wallet, _network, _chainId,
                   _connecting, listeners, calls, lastLifecycle>>

\* the bounded poll gives up
PollExpire ==
    /\ polling
    /\ polling' = FALSE
    /\ last' = NoCall
    /\ UNCHANGED <<env, injected, _readyState, _provider, _wallet, _network,
                   _chainId, _connecting, listeners, calls, lastLifecycle>>

----------------------------------------------------------------------------
(* connect() *)

RejectionEvent == Event("error", "User has rejected the connection")

\* a payload that falls back to null as publicAccount does
ConnectPayloadOrNull(w) == AddressOf(w)

\* the payload of 'connect': this._wallet?.address || ''
ConnectPayload(w) == IF AddressOf(w) = "null" THEN "" ELSE AddressOf(w)

\* connect(), from the call to the first await (or to its settling)
Connect ==
    /\ LET c == Begin("connect") IN
       IF connected \/ connecting
       THEN \* return, then the finally block
            /\ _connecting' = FALSE
            /\ Step(Resolve(c, "undefined", <<>>))
       ELSE IF ~WalletReady(_readyState)
       THEN /\ _connecting' = FALSE
            /\ Step(Reject(c, "WalletNotReadyError", <<RejectionEvent>>))
       ELSE IF ProviderLookup = "ReferenceError"
       THEN /\ _connecting' = FALSE
            /\ Step(Reject(c, "ReferenceError", <<RejectionEvent>>))
       ELSE /\ Room
            /\ _connecting' = TRUE
            /\ Step(IF ProviderLookup = "provider"
                       THEN Await(c, "awaitIsConnected", "isConnected")
                       ELSE [c EXCEPT !.pc = "awaitIsConnected"])
    /\ UNCHANGED <<envVars, _wallet, _network, _chainId, listeners,
                   lastLifecycle>>

\* provider.isConnected() settles; connect() goes on to request the accounts
IsConnectedReply(c, ok) ==
    /\ c.op = "connect"
    /\ c.pc = "awaitIsConnected"
    /\ (c.pcalls = <<>>) => ok
    /\ IF ~ok
       THEN /\ _connecting' = FALSE
            /\ StepFrom(c, Reject(c, "ProviderError", <<RejectionEvent>>))
       ELSE IF env = "noWindow" \/ ~injected
       THEN /\ _connecting' = FALSE
            /\ StepFrom(c, Reject(c, IF env = "noWindow" THEN "ReferenceError"
                                     ELSE "TypeError", <<RejectionEvent>>))
       ELSE /\ StepFrom(c, Await(c, "awaitAccounts", "stc_requestAccounts"))
            /\ UNCHANGED _connecting
    /\ UNCHANGED <<envVars, _wallet, _network, _chainId, listeners,
                   lastLifecycle>>

\* the stc_requestAccounts request settles: it throws, or answers resp
RequestAccountsReply(c, resp) ==
    /\ c.op = "connect"
    /\ c.pc = "awaitAccounts"
    /\ IF resp = "throw"
       THEN /\ _connecting' = FALSE
            /\ StepFrom(c, Reject(c, "ProviderError", <<RejectionEvent>>))
            /\ UNCHANGED _wallet
       ELSE IF resp = "null"
       THEN /\ _connecting' = FALSE
            /\ StepFrom(c, Reject(c, "WalletNotConnectedError",
                                  <<RejectionEvent>>))
            /\ UNCHANGED _wallet
       ELSE /\ _wallet' = Some([address |-> resp, isConnected |-> TRUE])
            /\ StepFrom(c, Await(Got(c, resp), "awaitChainId", "chain.id"))
            /\ UNCHANGED _connecting
    /\ UNCHANGED <<envVars, _network, _chainId, listeners, lastLifecycle>>

\* the chain.id request answers {id}
ChainIdReply(c, id) ==
    /\ c.op = "connect"
    /\ c.pc = "awaitChainId"
    /\ _network' = Some(id)
    /\ _chainId' = ChainIdHex(id)
    /\ _connecting' = FALSE
    /\ StepFrom(c, Resolve(Got(c, ToString(id)), "undefined",
                           <<Event("connect", ConnectPayload(_wallet))>>))
    /\ lastLifecycle' = "connect"
    /\ UNCHANGED <<envVars, _wallet, listeners>>

\* the chain.id request throws
ChainIdFail(c) ==
    /\ c.op = "connect"
    /\ c.pc = "awaitChainId"
    /\ _connecting' = FALSE
    /\ StepFrom(c, Reject(c, "ProviderError",
                          <<Event("error", "WalletGetNetworkError"),
                            RejectionEvent>>))
    /\ UNCHANGED <<envVars, _wallet, _network, _chainId, listeners,
                   lastLifecycle>>

----------------------------------------------------------------------------
(* disconnect() *)

Disconnect ==
    /\ LET c == Begin("disconnect") IN
       Step(Reject(c, "Error: No Disconnect", <<>>))
    /\ UNCHANGED <<envVars, _wallet, _network, _chainId, _connecting,
                   listeners, lastLifecycle>>

----------------------------------------------------------------------------
(* signTransaction() and signAndSubmitTransaction() *)

\* transactionPyld.arguments: [recipient, amount]
Payloads == {[to |-> "", amount |-> 1], [to |-> "0xB", amount |-> 0],
             [to |-> "0xB", amount |-> 1]}

\* signAndSubmitTransaction does not look at its arguments before the await
SubmitPayloads == {[to |-> "0xB", amount |-> 1]}

\* the error event each sending method emits from its catch block
SendErrorEvent(op) ==
    IF op = "signTransaction"
    THEN Event("error", "WalletSignTransactionError")
    ELSE Event("error", "WalletSignAndSubmitMessageError")

\* the guard both methods start with, then the argument checks of
\* signTransaction, up to the await of encodeScriptFunctionByResolve
SendStart(op, payload, validate) ==
    /\ LET c == Begin(op) IN
       IF ProviderLookup = "ReferenceError"
       THEN Step(Reject(c, "ReferenceError", <<SendErrorEvent(op)>>))
       ELSE IF _wallet = Null \/ ProviderLookup = "undefined"
       THEN Step(Reject(c, "WalletNotConnectedError",
                           <<SendErrorEvent(op)>>))
       ELSE IF validate /\ payload.to = ""
       THEN Step(Resolve(c, "false", <<>>))
       ELSE IF validate /\ payload.amount <= 0
       THEN Step(Resolve(c, "false", <<>>))
       ELSE IF ~injected
       THEN Step(Reject(c, "TypeError", <<SendErrorEvent(op)>>))
       ELSE /\ Room
            /\ Step([c EXCEPT !.pc = "awaitEncode"])
    /\ UNCHANGED <<envVars, _wallet, _network, _chainId, _connecting,
                   listeners, lastLifecycle>>

SignTransaction(payload) ==
    SendStart("signTransaction", payload, TRUE)

SignAndSubmitTransaction(payload) ==
    SendStart("signAndSubmitTransaction", payload, FALSE)

\* encodeScriptFunctionByResolve settles; on success the transaction is
\* handed to the provider's signer with sendUncheckedTransaction
EncodeReply(c, ok) ==
    /\ c.pc = "awaitEncode"
    /\ IF ok
       THEN StepFrom(c, Await(c, "awaitSend", "sendUncheckedTransaction"))
       ELSE StepFrom(c, Reject(c, "EncodeError", <<SendErrorEvent(c.op)>>))
    /\ UNCHANGED <<envVars, _wallet, _network, _chainId, _connecting,
                   listeners, lastLifecycle>>

\* what the provider may answer to sendUncheckedTransaction: a falsy value,
\* a transaction hash, or a result object carrying a success flag
SendAnswers == {"", "0xhash", "{success: false}",
                "{success: true, result: {hash: 0xhash}}"}

\* sendUncheckedTransaction settles: it throws, or answers resp
SendReply(c, resp) ==
    /\ c.pc = "awaitSend"
    /\ IF resp = "throw"
       THEN StepFrom(c, Reject(c, "ProviderError", <<SendErrorEvent(c.op)>>))
       ELSE IF resp = ""
       THEN StepFrom(c, Reject(Got(c, resp), "Error: No response",
                               <<SendErrorEvent(c.op)>>))
       ELSE IF c.op = "signTransaction"
       THEN StepFrom(c, Resolve(Got(c, resp), resp, <<>>))
       ELSE StepFrom(c, Resolve(Got(c, resp), "{hash: " \o resp \o "}",
                                <<>>))
    /\ UNCHANGED <<envVars, _wallet, _network, _chainId, _connecting,
                   listeners, lastLifecycle>>

----------------------------------------------------------------------------
(* signMessage() *)

SignMessage ==
    /\ LET c == Begin("signMessage") IN
       Step(Reject(c, "Error: Sign Message failed",
                      <<Event("error", "WalletSignMessageError")>>))
    /\ UNCHANGED <<envVars, _wallet, _network, _chainId, _connecting,
                   listeners, lastLifecycle>>

----------------------------------------------------------------------------
(* onAccountChange() and onNetworkChange() *)

ListenErrorEvent(op) ==
    IF op = "onAccountChange"
    THEN Event("error", "WalletAccountChangeError")
    ELSE Event("error", "WalletNetworkChangeError")

\* the guard, then provider.on(eventName, handler), which registers the
\* handler (ok) or throws
ListenStart(op, eventName, ok) ==
    /\ LET c == Begin(op) IN
       IF ProviderLookup = "ReferenceError"
       THEN /\ Step(Reject(c, "ReferenceError", <<ListenErrorEvent(op)>>))
            /\ UNCHANGED listeners
       ELSE IF _wallet = Null \/ ProviderLookup = "undefined"
       THEN /\ Step(Reject(c, "WalletNotConnectedError",
                              <<ListenErrorEvent(op)>>))
            /\ UNCHANGED listeners
       ELSE IF ~ok
       THEN /\ Step(Reject(Await(c, "awaitOn", eventName), "ProviderError",
                              <<ListenErrorEvent(op)>>))
            /\ UNCHANGED listeners
       ELSE /\ Room
            /\ Step(Await(c, "awaitOn", eventName))
            /\ listeners' = IF op = "onAccountChange"
                            THEN [listeners EXCEPT !.account = TRUE]
                            ELSE [listeners EXCEPT !.network = TRUE]
    /\ UNCHANGED <<envVars, _wallet, _network, _chainId, _connecting,
                   lastLifecycle>>

OnAccountChange(ok) ==
    ListenStart("onAccountChange", "on:accountsChanged", ok)

OnNetworkChange(ok) ==
    ListenStart("onNetworkChange", "on:networkChanged", ok)

\* the await of provider.on(...) resumes and the method returns
OnReply(c) ==
    /\ c.pc = "awaitOn"
    /\ StepFrom(c, Resolve(c, "undefined", <<>>))
    /\ UNCHANGED <<envVars, _wallet, _network, _chainId, _connecting,
                   listeners, lastLifecycle>>

\* { address: newAccount }: the spread of the old session is forgotten
ReplaceWallet(w, newAccount) ==
    Some([address |-> newAccount, isConnected |-> FALSE])

\* { ...this._wallet, address: newAccount }
SpreadWallet(w, newAccount) ==
    IF w = Null THEN Some([address |-> newAccount, isConnected |-> FALSE])
    ELSE Some([w[1] EXCEPT !.address = newAccount])

\* the provider invokes handleAccountChange(newAccount)
HandleAccountChange(newAccount) ==
    /\ listeners.account
    /\ _wallet' = SpreadWallet(_wallet, newAccount)
    /\ last' = Settle(Begin("handleAccountChange"), "returned", newAccount,
                      <<Event("accountChange", newAccount)>>)
    /\ lastLifecycle' = IF newAccount = "undefined" THEN "accountUndefined"
                        ELSE lastLifecycle
    /\ UNCHANGED <<envVars, _network, _chainId, _connecting, listeners, calls>>

\* the provider invokes handleNetworkChange(network)
HandleNetworkChange(id) ==
    /\ listeners.network
    /\ _network' = Some(id)
    /\ last' = Settle(Begin("handleNetworkChange"), "returned", ToString(id),
                      <<Event("networkChange", ToString(id))>>)
    /\ UNCHANGED <<envVars, _wallet, _chainId, _connecting, listeners, calls,
                   lastLifecycle>>

----------------------------------------------------------------------------
(* Specification *)

Next ==
    \/ Inject
    \/ Detect
    \/ PollExpire
    \/ Connect
    \/ \E c \in InFlight, ok \in BOOLEAN : IsConnectedReply(c, ok)
    \/ \E c \in InFlight, resp \in Addresses \cup {"throw", "null"} :
          RequestAccountsReply(c, resp)
    \/ \E c \in InFlight, id \in ChainIds : ChainIdReply(c, id)
    \/ \E c \in InFlight : ChainIdFail(c)
    \/ Disconnect
    \/ \E p \in Payloads : SignTransaction(p)
    \/ \E p \in SubmitPayloads : SignAndSubmitTransaction(p)
    \/ \E c \in InFlight, ok \in BOOLEAN : EncodeReply(c, ok)
    \/ \E c \in InFlight, resp \in SendAnswers \cup {"throw"} :
          SendReply(c, resp)
    \/ SignMessage
    \/ \E ok \in BOOLEAN : OnAccountChange(ok)
    \/ \E ok \in BOOLEAN : OnNetworkChange(ok)
    \/ \E c \in InFlight : OnReply(c)
    \/ \E a \in Addresses \cup {"undefined"} : HandleAccountChange(a)
    \/ \E id \in ChainIds : HandleNetworkChange(id)

Spec == Init /\ [][Next]_vars

TypeOK ==
    /\ env \in Envs
    /\ injected \in BOOLEAN
    /\ polling \in BOOLEAN
    /\ _readyState \in {"Unsupported", "NotDetected", "Loadable", "Installed"}
    /\ _provider \in BOOLEAN
    /\ _connecting \in BOOLEAN
    /\ BagCardinality(calls) <= MaxCalls
    /\ last.outcome \in {"none", "resolved", "rejected", "returned"}

----------------------------------------------------------------------------
(* Properties *)

SessionOps == {"signTransaction", "signAndSubmitTransaction", "signMessage",
               "onAccountChange", "onNetworkChange"}

PublicMethods == SessionOps \cup {"connect", "disconnect"}

Emitted(c, name) == \E i \in 1..Len(c.events) : c.events[i].name = name

CountEmitted(c, name) ==
    Cardinality({i \in 1..Len(c.events) : c.events[i].name = name})

\* the connect() calls that are past the guards and have not settled
ConnectsInFlight ==
    BagCardinality([c \in {d \in InFlight : d.op = "connect"} |-> calls[c]])

\* C1: whenever no call is outstanding, connected is true exactly if the
\* last successful lifecycle event was a 'connect' (no later disconnect and
\* no later account change to undefined); never true before a connect()
\* has succeeded.
C1_ConnectedIffLastConnect ==
    (calls = EmptyBag) => (connected <=> lastLifecycle = "connect")

\* C2: a call of signTransaction, signAndSubmitTransaction, signMessage,
\* onAccountChange or onNetworkChange made while there is no session
\* rejects with NotConnected and has made no call on the provider.
C2_NoSessionNotConnected ==
    (last.op \in SessionOps /\ ~last.pre.session)
        => /\ last.outcome = "rejected"
           /\ last.result = "WalletNotConnectedError"
           /\ last.pcalls = <<>>

\* C3: connect() called while connecting or connected resolves, emits
\* nothing, calls the provider for nothing and leaves the session, the
\* network fields and the connecting flag as they were.
C3_ConnectNoop ==
    [][(last'.op = "connect"
            /\ (last'.pre.connecting \/ last'.pre.connected))
        => /\ last'.outcome = "resolved"
           /\ last'.events = <<>>
           /\ last'.pcalls = <<>>
           /\ UNCHANGED <<_wallet, _network, _chainId, _connecting>>]_vars

\* C4: at most one connect() call at a time is past the guards.
C4_OneConnectPastGuard == ConnectsInFlight <= 1

\* C5: connecting is true exactly while some connect() call that passed
\* the guards has not settled.
C5_ConnectingIffInFlight == connecting <=> ConnectsInFlight > 0

\* C6: connect() called while readyState is NotDetected or Unsupported, and
\* neither connected nor connecting, rejects with NotReady, has made no
\* provider request and leaves the session unset.
C6_NotReadyRejects ==
    (/\ last.op = "connect"
     /\ last.pre.readyState \in {"NotDetected", "Unsupported"}
     /\ ~last.pre.connected
     /\ ~last.pre.connecting)
        => /\ last.outcome = "rejected"
           /\ last.result = "WalletNotReadyError"
           /\ last.pcalls = <<>>
           /\ ~connected
           /\ publicAccountAddress = "null"

\* a connect() made before the wallet was detected has just been rejected
C6_Witness ==
    /\ last.op = "connect"
    /\ last.pre.readyState = "NotDetected"
    /\ ~last.pre.connected
    /\ ~last.pre.connecting
    /\ last.outcome = "rejected"
    /\ last.result = "WalletNotReadyError"

\* C7: when a connect() call rejects on an adapter whose session was unset
\* when it was called, the session is still unset afterwards.
C7_RejectedConnectNoSession ==
    (last.op = "connect" /\ last.outcome = "rejected" /\ ~last.pre.session)
        => (~connected /\ publicAccountAddress = "null")

\* C8: with an active session (a connect() has succeeded), disconnect()
\* resolves, emits 'disconnect' and leaves connected false and
\* publicAccount.address null.
C8_DisconnectClears ==
    (last.op = "disconnect" /\ last.pre.connected
        /\ lastLifecycle = "connect")
        => /\ last.outcome = "resolved"
           /\ Emitted(last, "disconnect")
           /\ ~connected
           /\ publicAccountAddress = "null"

\* C9: after the account-change callback is invoked with undefined,
\* connected is false and no 'accountChange' event was emitted.
C9_UndefinedAccountDisconnects ==
    (last.op = "handleAccountChange" /\ last.result = "undefined")
        => (~connected /\ ~Emitted(last, "accountChange"))

\* C10: every public-method call that rejects has emitted an 'error' event,
\* and a call that resolves has emitted none unless it is a disconnect().
C10_FailuresEmittedAndRethrown ==
    /\ (last.op \in PublicMethods /\ last.outcome = "rejected")
          => Emitted(last, "error")
    /\ (last.op \in PublicMethods \ {"disconnect"}
            /\ last.outcome = "resolved")
          => ~Emitted(last, "error")

\* a connect() call that passed the guards has just resolved
ConnectResolved ==
    /\ last.op = "connect"
    /\ last.outcome = "resolved"
    /\ ~last.pre.connected
    /\ ~last.pre.connecting

\* C11: once a connect() has succeeded, network.name is the latest id the
\* provider reported and network.chainId is the '0x'-prefixed hexadecimal
\* form of that same id.
C11_NetworkProjection ==
    /\ (lastLifecycle = "connect")
          => /\ network.name # Null
             /\ network.chainId = ChainIdHex(network.name[1])
    /\ (lastLifecycle = "connect" /\ last.op = "handleNetworkChange")
          => /\ network.name # Null
             /\ ToString(network.name[1]) = last.result

\* C12: when connect() resolves after the provider answered address A and
\* chain id n, publicAccount.address is A and network.chainId is "0x"
\* followed by the lowercase hexadecimal digits of n.
C12_ConnectRoundTrip ==
    ConnectResolved
        => /\ Len(last.replies) = 2
           /\ publicAccountAddress = last.replies[1]
           /\ \E n \in ChainIds :
                 /\ ToString(n) = last.replies[2]
                 /\ network.chainId = ChainIdHex(n)

\* the chain ids of the model in lowercase hexadecimal, written out
HexOf(n) == CASE n = 1 -> "0x1" [] n = 254 -> "0xfe"

\* an account reply has just moved connect() call c on to the chain.id request
AccountsStored(c) ==
    /\ c.op = "connect"
    /\ c.pc = "awaitChainId"
    /\ CopiesIn(c, calls') > CopiesIn(c, calls)

\* C12 (amended): the account reply A of a connect() is stored as
\* publicAccount.address at once; the stored session is afterwards written
\* only by an account-change callback or by the account reply of a
\* connect(); and when the chain.id request answers n the call resolves
\* with network.chainId = "0x" + lowercase hex of n, leaving the session
\* as it was.
C12_ConnectStoresReplies ==
    [][/\ \A c \in BagToSet(calls') :
             AccountsStored(c) => publicAccountAddress' = c.replies[1]
       /\ (_wallet' # _wallet)
             => \/ last'.op = "handleAccountChange"
                \/ \E c \in BagToSet(calls') : AccountsStored(c)
       /\ ConnectResolved'
             => /\ Len(last'.replies) = 2
                /\ \E n \in ChainIds :
                      /\ ToString(n) = last'.replies[2]
                      /\ network.chainId' = HexOf(n)
                /\ _wallet' = _wallet]_vars

\* connect() has just resolved after the answers 0xA and 254
C12_Witness ==
    /\ ConnectResolved
    /\ last.replies = <<"0xA", "254">>
    /\ publicAccountAddress = "0xA"
    /\ network.chainId = "0xfe"

\* the provider's result has success === true
SuccessTrue(resp) == resp = "{success: true, result: {hash: 0xhash}}"

\* C13: signAndSubmitTransaction resolves, with {hash}, only when the
\* provider's result has success === true; on any other result it rejects
\* with 'No response' and emits a SignAndSubmit 'error' event.
C13_SubmitOnlyOnSuccess ==
    (last.op = "signAndSubmitTransaction" /\ Len(last.replies) = 1)
        => IF SuccessTrue(last.replies[1])
           THEN last.outcome = "resolved" => last.result = "{hash: 0xhash}"
           ELSE /\ last.outcome = "rejected"
                /\ last.result = "Error: No response"
                /\ last.events =
                      <<Event("error", "WalletSignAndSubmitMessageError")>>

\* C14: readyState changes only from NotDetected to Installed, in a run of
\* the detection callback that emits 'readyStateChange' with the new state.
C14_ReadyStateTransitions ==
    [][(_readyState' # _readyState)
        => /\ _readyState = "NotDetected"
           /\ _readyState' = "Installed"
           /\ last'.op = "detect"
           /\ last'.events = <<Event("readyStateChange", readyState')>>]_vars

\* the detection callback has just found the provider
C14_Witness ==
    /\ last.op = "detect"
    /\ last.result = "true"
    /\ readyState = "Installed"
    /\ last.pre.readyState = "NotDetected"

\* C16: with an active session signMessage calls the provider's
\* message-signing call and rejects only when that call fails or throws.
C16_SignMessageDelegates ==
    (last.op = "signMessage" /\ last.pre.session)
        => /\ last.pcalls = <<"signMessage">>
           /\ (last.outcome = "rejected" => last.result = "ProviderError")

\* C17: signTransaction never hands a transaction to the provider for
\* submission: no signTransaction call, suspended or settled, has called
\* sendUncheckedTransaction.
C17_SignTransactionNeverSubmits ==
    /\ \A c \in InFlight :
          c.op = "signTransaction"
              => \A i \in 1..Len(c.pcalls) :
                    c.pcalls[i] # "sendUncheckedTransaction"
    /\ (last.op = "signTransaction")
          => \A i \in 1..Len(last.pcalls) :
                last.pcalls[i] # "sendUncheckedTransaction"

C19_OnlyNetworkError ==
    (/\ last.op = "connect"
     /\ last.outcome = "rejected"
     /\ Len(last.pcalls) > 0
     /\ last.pcalls[Len(last.pcalls)] = "chain.id")
        => /\ last.result = "ProviderError"
           /\ last.events = <<Event("error", "WalletGetNetworkError")>>

\* a call of one of the session methods has run a segment in this step
SessionOpStep ==
    \/ last'.op \in SessionOps
    \/ \E c \in BagToSet(calls') :
          c.op \in SessionOps /\ CopiesIn(c, calls') > CopiesIn(c, calls)

\* C20: the calls of signTransaction, signAndSubmitTransaction,
\* signMessage, onAccountChange and onNetworkChange leave the session, the
\* network fields, readyState and the connecting flag unchanged; an
\* account-change callback with a defined account stores that address and
\* leaves isConnected, the network fields, readyState and connecting
\* unchanged.
C20_Frame ==
    [][/\ SessionOpStep
             => UNCHANGED <<_wallet, _network, _chainId, _readyState,
                            _connecting>>
       /\ (last'.op = "handleAccountChange" /\ last'.result # "undefined")
             => /\ _wallet' # Null
                /\ _wallet'[1].address = last'.result
                /\ _wallet # Null
                /\ _wallet'[1].isConnected = _wallet[1].isConnected
                /\ UNCHANGED <<_network, _chainId, _readyState,
                               _connecting>>]_vars

\* the account-change callback has just stored another address
C20_Witness ==
    /\ last.op = "handleAccountChange"
    /\ last.result = "0xB"
    /\ publicAccountAddress = "0xB"
    /\ connected

====
